---- MODULE Spec2Model ----
(***************************************************************************)
(* Checkpoint / resume control logic of the OCIP scraper phase scripts     *)
(* (src/Main.py).  Phases 1 and 3 (v2.0) harvest one grid per institution  *)
(* ("scope"); phases 2, 4 and 6 walk a master list and fetch one detail    *)
(* page per item.  The browser is an environment: what a scope or an item  *)
(* yields is fixed per run of the model (env) so that an interrupted and   *)
(* resumed run can be compared with an uninterrupted one.                  *)
(***************************************************************************)
EXTENDS Integers, Sequences, FiniteSets, TLC

(* ---- bounds of the model ---------------------------------------------- *)
NumScopes == 3
MaxRecs == 1
MaxItems == 2
MaxStops == 2

MaxTotal == 4
PageRows == 2
MaxOld == 2
MaxTargets == 2
MaxRows == 2
MaxText == 2
MaxOptions == 2
BatchItems == 120
MaxFields == 2
MaxFaults == 2
MaxPrompts == 2
MaxOrgs == 3

(* ---- program constants ------------------------------------------------ *)
CHECKPOINT_EVERY == 10
SAFETY_LIMIT_PHASE1 == 50
SAFETY_LIMIT_PHASE3 == 200
SAFETY_LIMIT_PHASE5 == 500
BATCH_SIZE == 50
EMPTY_MAX_RETRIES == 3
ROW_STABLE_POLLS == 2
ROW_STABLE_INTERVAL == 1
ROW_STABLE_TIMEOUT == 3

HarvestPhases == {1, 3}
DetailPhases == {2, 4, 6}
Phases == HarvestPhases \cup DetailPhases

Unbound == -1

VARIABLES
    phase,               \* which phase script is running
    env,                 \* what the remote source yields per scope / item
    pc,                  \* position of the process in main()
    outcome,             \* "running", "interrupted", "aborted", "complete"
    master_list,         \* harvest: accumulated records
    resume,              \* the operator answered y to "Resume from checkpoint?"
    start_index,
    i,                   \* loop variable of the for loop, Unbound before it
    institution_names,
    empty_institutions,
    data,                \* result of scrape_institution for scope i
    processed_data,      \* detail phases: accumulated profiles
    errors,              \* detail phases: error registry
    arg_index,           \* current_index argument of the running save_checkpoint
    ret,                 \* where save_checkpoint returns to
    ckpt,                \* CHECKPOINT_FILE on disk
    errlog,              \* ERROR_LOG_FILE on disk
    output,              \* OUTPUT_JSON / OUTPUT_FILE on disk
    visited,             \* units the current process selected / navigated to
    saved,               \* a complete checkpoint has been written and not removed
    stops,               \* kills and interrupts so far
    \* -- scrape_all_pages_for_institution / the phase 5 pagination loop --
    ppc,                 \* position inside the pagination code
    current_page,
    grid_page,           \* the page the remote grid really shows
    window,              \* (start, end, total) as parse_pagination_info returned it
    next_enabled,        \* what has_next_page returned
    pages_scraped,       \* pages handed to the extractor for this scope
    next_clicks,         \* successful clicks on "Go to the next page"
    \* -- _revisit_targets --
    targets,             \* the entries still to re-visit
    still_empty,
    before,              \* master_list when the re-visit of the entry began
    fetched,             \* what scrape_institution returned for the entry
    menu_choice,         \* the option of post_scrape_menu that was taken: "A" or "S"
    chosen,              \* the targets post_scrape_menu handed to _revisit_targets
    old_empty,           \* empty_institutions when the option was taken
    \* -- wait_for_rows_stable / wait_for_rows_with_retry / first page --
    spc,                 \* position inside the first-page code
    sret,                \* the call of wait_for_rows_stable that is running
    polls,               \* iterations of the polling loop so far
    last_count,
    streak,
    rows,                \* number of rows in the list wait_for_rows_stable returned
    stable,              \* that list was returned by "return rows  # stable"
    attempt,
    zero_attempts,       \* attempts of the retry loop that ended without rows
    is_empty,
    label_total,         \* total of the last parse_pagination_info
    handed,              \* the row list passed to scrape_rows
    \* -- select_institution --
    sel,                 \* position inside select_institution
    options,             \* the texts of the <li> options of the listbox
    target_name,
    selected,            \* index of the option that was clicked, 0 for none
    result,              \* "True" / "False", "raised" if an exception left it
    excepted,            \* an except clause of select_institution has run
    \* -- what the detail loop did besides its bookkeeping --
    save_failed,         \* a write of CHECKPOINT_FILE has raised in this run
    pauses,              \* the items (1-based) after which BATCH_PAUSE was slept
    \* -- the deduplication of phase 5 --
    existing_urls,       \* the Manage_URL values of the records in master_list
    scraped,             \* every row scrape_current_page has returned so far
    \* -- extract_*_full_profile --
    xpc,                 \* position inside extract_*_full_profile
    profile,             \* the profile under construction, None as [none |-> TRUE]
    faulted,             \* the sections whose extractor met an exception
    \* -- BrowserSession and run_phase --
    rpc,                 \* position inside run_phase, "menu" outside it
    phase_num,
    driver,              \* "none", "alive", or "dead" once its window is gone
    is_logged_in,
    authed,              \* the manual login was performed in the browser of `driver`
    prompts,             \* manual logins requested in the browser of `driver`
    dep_output,          \* the output_json of phases 1, 3, 5: missing / empty / records
    touched,             \* what this call of run_phase has done so far
    returned,            \* what the last call of run_phase returned
    module_end,          \* how the phase module's main() ended in that call
    \* -- run_category_pipeline / run_full_pipeline --
    pipeline,            \* "none", "category" or "full"
    todo,                \* the phases the for loop has not started yet
    completed,
    failed,
    answer               \* the last answer to "Continue with remaining? (y/n)"

mem == <<pc, outcome, master_list, resume, start_index, i, institution_names,
         empty_institutions, data, processed_data, errors, arg_index, ret,
         visited>>
disk == <<ckpt, errlog, output, saved>>
pager == <<ppc, current_page, grid_page, window, next_enabled, pages_scraped,
           next_clicks>>
asked == <<menu_choice, chosen, old_empty>>
revisit == <<targets, still_empty, before, fetched, asked>>
settle == <<spc, sret, polls, last_count, streak, rows, stable, attempt,
            zero_attempts, is_empty, label_total, handed>>
select == <<sel, options, target_name, selected, result, excepted>>
dedup == <<existing_urls, scraped>>
aux == <<save_failed, pauses, dedup>>
section == <<xpc, profile, faulted>>
pipe == <<pipeline, todo, completed, failed, answer>>
menu == <<rpc, phase_num, driver, is_logged_in, authed, prompts, dep_output,
          touched, returned, module_end, pipe>>
rest == <<aux, section, menu>>
sub == <<pager, revisit, settle, select, rest>>
vars == <<phase, env, mem, disk, stops, sub>>

(* ---- values ----------------------------------------------------------- *)
IsHarvest == phase \in HarvestPhases
IsDetail == phase \in DetailPhases

Total == Len(env)
Env(u) == env[u + 1]

\* the dropdown shows one option per scope; names are distinct from indices
Name(u) == 10 + u
AllNames == [k \in 1..NumScopes |-> Name(k - 1)]

\* the records scope u yields when its grid is scraped
Recs(u) == IF Env(u) > 0 THEN [k \in 1..Env(u) |-> <<Name(u), k>>] ELSE <<>>

NoData == [none |-> FALSE, recs |-> <<>>]

NoFile == [st |-> "absent", current_index |-> 0, data |-> <<>>,
           institution_names |-> <<>>, empty_institutions |-> <<>>]
Partial == [NoFile EXCEPT !.st = "partial"]
IsCkpt(f) == f.st = "complete"

NoErr == [st |-> "absent", errors |-> <<>>]
PartialErr == [NoErr EXCEPT !.st = "partial"]

NoOut == [st |-> "absent", data |-> <<>>]

ItemKinds == {"ok", "fail", "nourl"}
ShortLists == UNION {[1..n -> ItemKinds] : n \in 1..MaxItems}
LongList == [k \in 1..(CHECKPOINT_EVERY + 1) |-> "ok"]
ItemLists == ShortLists \cup {LongList}
ScopeEnvs == [1..NumScopes -> (-1)..MaxRecs]

Unparsed == <<0, 0, 0>>

\* the pagination code is not running
PagerIdle ==
    /\ ppc = "idle"
    /\ current_page = 1
    /\ grid_page = 1
    /\ window = Unparsed
    /\ next_enabled = FALSE
    /\ pages_scraped = 0
    /\ next_clicks = 0

\* _revisit_targets is not running
RevisitIdle ==
    /\ targets = <<>>
    /\ still_empty = <<>>
    /\ before = <<>>
    /\ fetched = NoData
    /\ menu_choice = "none"
    /\ chosen = <<>>
    /\ old_empty = <<>>

NotHanded == [n |-> 0, stable |-> FALSE, any |-> FALSE]

\* the first-page code is not running
SettleIdle ==
    /\ spc = "idle"
    /\ sret = "none"
    /\ polls = 0
    /\ last_count = -1
    /\ streak = 0
    /\ rows = 0
    /\ stable = FALSE
    /\ attempt = 0
    /\ zero_attempts = 0
    /\ is_empty = FALSE
    /\ label_total = 0
    /\ handed = NotHanded

\* select_institution is not running
SelectIdle ==
    /\ sel = "idle"
    /\ options = <<>>
    /\ target_name = <<>>
    /\ selected = 0
    /\ result = "none"
    /\ excepted = FALSE

\* no checkpoint write has failed, no pause was slept
AuxIdle ==
    /\ save_failed = FALSE
    /\ pauses = {}
    /\ existing_urls = {}
    /\ scraped = {}

NoProfile == [none |-> TRUE, meta |-> FALSE, sections |-> <<>>]

\* extract_*_full_profile is not running
SectionIdle ==
    /\ xpc = "idle"
    /\ profile = NoProfile
    /\ faulted = {}

\* the controller is not running: no browser, nothing on disk
MenuIdle ==
    /\ rpc = "idle"
    /\ phase_num = 0
    /\ driver = "none"
    /\ is_logged_in = FALSE
    /\ authed = FALSE
    /\ prompts = 0
    /\ dep_output = <<>>
    /\ touched = {}
    /\ returned = "none"
    /\ module_end = "none"
    /\ pipeline = "none"
    /\ todo = <<>>
    /\ completed = <<>>
    /\ failed = <<>>
    /\ answer = "none"

\* the locals of main() as a new process initialises them
Init ==
    /\ phase \in Phases
    /\ env \in IF phase \in HarvestPhases THEN ScopeEnvs ELSE ItemLists
    /\ pc = "boot"
    /\ outcome = "running"
    /\ master_list = <<>>
    /\ resume = FALSE
    /\ start_index = 0
    /\ i = Unbound
    /\ institution_names = <<>>
    /\ empty_institutions = <<>>
    /\ data = NoData
    /\ processed_data = <<>>
    /\ errors = <<>>
    /\ arg_index = 0
    /\ ret = "none"
    /\ visited = {}
    /\ ckpt = NoFile
    /\ errlog = NoErr
    /\ output = NoOut
    /\ saved = FALSE
    /\ stops = 0
    /\ PagerIdle
    /\ RevisitIdle
    /\ SettleIdle
    /\ SelectIdle
    /\ AuxIdle
    /\ SectionIdle
    /\ MenuIdle

NewProcess ==
    /\ pc' = "boot"
    /\ outcome' = "running"
    /\ master_list' = <<>>
    /\ resume' = FALSE
    /\ start_index' = 0
    /\ i' = Unbound
    /\ institution_names' = <<>>
    /\ empty_institutions' = <<>>
    /\ data' = NoData
    /\ processed_data' = <<>>
    /\ errors' = <<>>
    /\ arg_index' = 0
    /\ ret' = "none"
    /\ visited' = {}

(* ---- start-up --------------------------------------------------------- *)
\* load_checkpoint() and the "Resume from checkpoint? (y/n)" prompt
LoadCheckpoint(ans) ==
    /\ pc = "boot"
    /\ pc' = "login"
    /\ resume' = (IsCkpt(ckpt) /\ ans)
    /\ IF IsCkpt(ckpt) /\ ans
       THEN /\ start_index' = ckpt.current_index
            /\ IF IsHarvest
               THEN /\ master_list' = ckpt.data
                    /\ institution_names' = ckpt.institution_names
                    /\ empty_institutions' = ckpt.empty_institutions
                    /\ UNCHANGED <<processed_data, errors>>
               ELSE /\ processed_data' = ckpt.data
                    /\ errors' = IF errlog.st = "complete" THEN errlog.errors ELSE <<>>
                    /\ UNCHANGED <<master_list, institution_names, empty_institutions>>
       ELSE UNCHANGED <<start_index, master_list, institution_names,
                        empty_institutions, processed_data, errors>>
    /\ UNCHANGED <<sub, phase, env, outcome, i, data, arg_index, ret, visited, disk, stops>>

\* driver.get(LOGIN_URL) and the manual login prompt
Login ==
    /\ pc = "login"
    /\ pc' = IF IsHarvest THEN "enum" ELSE "for"
    /\ UNCHANGED <<sub, phase, env, resume, outcome, master_list, start_index, i,
                   institution_names, empty_institutions, data, processed_data,
                   errors, arg_index, ret, visited, disk, stops>>

\* get_institution_names(); phase 3 skips it when the checkpoint gave the list
Enumerate(found) ==
    /\ pc = "enum"
    /\ IF phase = 3 /\ institution_names # <<>>
       THEN /\ pc' = "for"
            /\ UNCHANGED <<institution_names, outcome>>
       ELSE /\ institution_names' = IF found THEN AllNames ELSE <<>>
            /\ pc' = IF found THEN "for" ELSE "exited"
            /\ outcome' = IF found THEN outcome ELSE "aborted"
    /\ UNCHANGED <<sub, phase, env, resume, master_list, start_index, i, empty_institutions,
                   data, processed_data, errors, arg_index, ret, visited, disk, stops>>

(* ---- the for loop ----------------------------------------------------- *)
LoopTotal == IF IsHarvest THEN Len(institution_names) ELSE Total

\* a loop that ignores the resume cursor
NextIndex_FromZero == IF i = Unbound THEN 0 ELSE i + 1

\* enumerate(units[start_index:], start=start_index): the index the loop takes next
NextIndex == IF i = Unbound THEN start_index ELSE i + 1

ForNext ==
    /\ pc = "for"
    /\ IF NextIndex < LoopTotal
       THEN /\ i' = NextIndex
            /\ pc' = "body"
       ELSE /\ pc' = "final"
            /\ UNCHANGED i
    /\ UNCHANGED <<sub, phase, env, resume, outcome, master_list, start_index,
                   institution_names, empty_institutions, data, processed_data,
                   errors, arg_index, ret, visited, disk, stops>>

(* ---- save_checkpoint -------------------------------------------------- *)
\* a call of save_checkpoint(.., current_index, ..) that returns to `back`
CallSave(index, back) ==
    /\ arg_index' = index
    /\ ret' = back
    /\ pc' = "ckpt_open"

\* the document json.dump writes into CHECKPOINT_FILE
CheckpointDoc ==
    [st |-> "complete",
     current_index |-> arg_index,
     data |-> IF IsHarvest THEN master_list ELSE processed_data,
     institution_names |-> IF phase = 3 THEN institution_names ELSE <<>>,
     empty_institutions |-> IF phase = 3 THEN empty_institutions ELSE <<>>]

\* open(CHECKPOINT_FILE, 'w') truncates the file in place
OpenCheckpoint ==
    /\ pc = "ckpt_open"
    /\ ckpt' = Partial
    /\ pc' = "ckpt_dump"
    /\ UNCHANGED <<sub, phase, env, resume, outcome, master_list, start_index, i,
                   institution_names, empty_institutions, data, processed_data,
                   errors, arg_index, ret, visited, errlog, output, saved, stops>>

\* json.dump(checkpoint, f) and the close of the file
DumpCheckpoint ==
    /\ pc = "ckpt_dump"
    /\ ckpt' = CheckpointDoc
    /\ saved' = TRUE
    /\ pc' = IF IsDetail THEN "err_open" ELSE ret
    /\ UNCHANGED <<sub, phase, env, resume, outcome, master_list, start_index, i,
                   institution_names, empty_institutions, data, processed_data,
                   errors, arg_index, ret, visited, errlog, output, stops>>

\* open(CHECKPOINT_FILE, 'w') raises: phase 6 catches it inside save_checkpoint
\* and prints a warning; elsewhere it leaves save_checkpoint and reaches the
\* except Exception of main(), which in phase 3 saves again with start_index
FailCheckpoint ==
    /\ pc = "ckpt_open"
    /\ save_failed' = TRUE
    /\ IF phase = 6
       THEN /\ pc' = "err_open"
            /\ UNCHANGED <<outcome, arg_index, ret>>
       ELSE IF phase = 3 /\ outcome = "running"
       THEN /\ outcome' = "failed"
            /\ CallSave(start_index, "results")
       ELSE /\ outcome' = IF outcome = "running" THEN "failed" ELSE outcome
            /\ pc' = "exited"
            /\ UNCHANGED <<arg_index, ret>>
    /\ UNCHANGED <<pager, revisit, settle, select, pauses, dedup, section, menu,
                   phase, env, resume, master_list, start_index, i,
                   institution_names, empty_institutions, data, processed_data,
                   errors, visited, disk, stops>>

\* detail phases: open(ERROR_LOG_FILE, 'w')
OpenErrorLog ==
    /\ pc = "err_open"
    /\ errlog' = PartialErr
    /\ pc' = "err_dump"
    /\ UNCHANGED <<sub, phase, env, resume, outcome, master_list, start_index, i,
                   institution_names, empty_institutions, data, processed_data,
                   errors, arg_index, ret, visited, ckpt, output, saved, stops>>

\* detail phases: json.dump(errors, f)
DumpErrorLog ==
    /\ pc = "err_dump"
    /\ errlog' = [st |-> "complete", errors |-> errors]
    /\ pc' = ret
    /\ UNCHANGED <<sub, phase, env, resume, outcome, master_list, start_index, i,
                   institution_names, empty_institutions, data, processed_data,
                   errors, arg_index, ret, visited, ckpt, output, saved, stops>>

(* ---- harvest loop body (phases 1 and 3) ------------------------------- *)
\* select_institution + scrape_all_pages_for_institution for scope i
ScrapeInstitution ==
    /\ pc = "body"
    /\ IsHarvest
    /\ data' = IF Env(i) < 0
               THEN [none |-> TRUE, recs |-> <<>>]
               ELSE [none |-> FALSE, recs |-> Recs(i)]
    /\ visited' = visited \cup {i}
    /\ pc' = "record"
    /\ UNCHANGED <<sub, phase, env, resume, outcome, master_list, start_index, i,
                   institution_names, empty_institutions, processed_data,
                   errors, arg_index, ret, disk, stops>>

EmptyEntry(reason) == [index |-> i, name |-> institution_names[i + 1], reason |-> reason]

\* the registry of scopes needing review after the outcome of scope i
RegistryAfter ==
    IF phase # 3 THEN empty_institutions
    ELSE IF data.none THEN Append(empty_institutions, EmptyEntry("selection_failed"))
    ELSE IF Len(data.recs) = 0 THEN Append(empty_institutions, EmptyEntry("no_data"))
    ELSE empty_institutions

\* a loop body that saves only when the scope gave records
AfterOutcome_SaveOnData ==
    IF data.none \/ Len(data.recs) = 0
    THEN /\ pc' = "for"
         /\ UNCHANGED <<arg_index, ret>>
    ELSE CallSave(i + 1, "for")

\* a loop body that leaves the loop when a scope failed or was empty
AfterOutcome_BreakOnFailure ==
    IF data.none \/ Len(data.recs) = 0
    THEN /\ pc' = "final"
         /\ UNCHANGED <<arg_index, ret>>
    ELSE CallSave(i + 1, "for")

\* where the loop body goes once the outcome of scope i is known
AfterOutcome == CallSave(i + 1, "for")

\* master_list.extend(..) / empty_institutions.append(..), then save_checkpoint
RecordOutcome ==
    /\ pc = "record"
    /\ master_list' = IF data.none THEN master_list ELSE master_list \o data.recs
    /\ empty_institutions' = RegistryAfter
    /\ data' = NoData
    /\ AfterOutcome
    /\ UNCHANGED <<sub, phase, env, resume, outcome, start_index, i, institution_names,
                   processed_data, errors, visited, disk, stops>>

(* ---- detail loop body (phases 2, 4 and 6) ----------------------------- *)
ErrorEntry(reason) == [index |-> i, reason |-> reason]

\* phases 2 and 4 save "periodically"; phase 6 saves after every organization
SaveDue == phase = 6 \/ (i + 1) % CHECKPOINT_EVERY = 0

\* a loop that takes every Manage_URL for a usable one
NoValidUrl_Never(u) == FALSE

\* url = item.get("Manage_URL", ""); not url or url == "Not Found"
NoValidUrl(u) == Env(u) = "nourl"

\* the "if not url or url == 'Not Found'" branch of the loop body
CheckUrl ==
    /\ pc = "body"
    /\ IsDetail
    /\ visited' = visited \cup {i}
    /\ IF NoValidUrl(i)
       THEN /\ errors' = Append(errors, ErrorEntry("No valid Manage URL"))
            /\ IF phase = 6
               THEN CallSave(i + 1, "for")
               ELSE /\ pc' = "for"
                    /\ UNCHANGED <<arg_index, ret>>
       ELSE /\ pc' = "extract"
            /\ UNCHANGED <<errors, arg_index, ret>>
    /\ UNCHANGED <<sub, phase, env, resume, outcome, master_list, start_index, i,
                   institution_names, empty_institutions, data, processed_data,
                   disk, stops>>

\* a loop that only prints "Extraction failed"
RecordFailure_Dropped == errors

\* errors.append({.., "reason": "Extraction failed"})
RecordFailure == Append(errors, ErrorEntry("Extraction failed"))

\* extract_*_full_profile(item i) and the bookkeeping of its result
ExtractProfile ==
    /\ pc = "extract"
    /\ IF Env(i) = "ok"
       THEN /\ processed_data' = Append(processed_data, i)
            /\ UNCHANGED errors
       ELSE /\ errors' = RecordFailure
            /\ UNCHANGED processed_data
    /\ IF SaveDue
       THEN CallSave(i + 1, "rate")
       ELSE /\ pc' = "rate"
            /\ UNCHANGED <<arg_index, ret>>
    /\ UNCHANGED <<sub, phase, env, resume, outcome, master_list, start_index, i,
                   institution_names, empty_institutions, data, visited,
                   disk, stops>>

\* "if (i + 1) % BATCH_SIZE == 0 and i + 1 < total"
PauseDue == (i + 1) % BATCH_SIZE = 0 /\ i + 1 < Total

\* the rate limiting at the end of the loop body: time.sleep(BATCH_PAUSE)
RateLimit ==
    /\ pc = "rate"
    /\ pauses' = IF PauseDue THEN pauses \cup {i + 1} ELSE pauses
    /\ pc' = "for"
    /\ UNCHANGED <<pager, revisit, settle, select, save_failed, dedup, section, menu,
                   phase, env, resume, outcome, master_list, start_index, i,
                   institution_names, empty_institutions, data, processed_data,
                   errors, arg_index, ret, visited, disk, stops>>

(* ---- after the loop --------------------------------------------------- *)
\* the final save: OUTPUT_JSON (harvest) or OUTPUT_FILE and the error log (detail)
WriteOutput ==
    /\ pc = "final"
    /\ output' = [st |-> "complete",
                  data |-> IF IsHarvest THEN master_list ELSE processed_data]
    /\ errlog' = IF IsDetail /\ errors # <<>>
                 THEN [st |-> "complete", errors |-> errors]
                 ELSE errlog
    /\ pc' = IF phase = 1 THEN "exited" ELSE IF phase = 3 THEN "menu" ELSE "cleanup"
    /\ outcome' = IF phase = 1 THEN "complete" ELSE outcome
    /\ UNCHANGED <<sub, phase, env, resume, master_list, start_index, i, institution_names,
                   empty_institutions, data, processed_data, errors, arg_index,
                   ret, visited, ckpt, saved, stops>>

\* detail phases: "Clean up checkpoint file on success"
CleanupDue ==
    /\ ckpt.st # "absent"
    /\ Len(errors) = 0
    /\ phase = 6 => Len(processed_data) = Total

Cleanup ==
    /\ pc = "cleanup"
    /\ ckpt' = IF CleanupDue THEN NoFile ELSE ckpt
    /\ saved' = IF CleanupDue THEN FALSE ELSE saved
    /\ pc' = "exited"
    /\ outcome' = "complete"
    /\ UNCHANGED <<sub, phase, env, resume, master_list, start_index, i, institution_names,
                   empty_institutions, data, processed_data, errors, arg_index,
                   ret, visited, errlog, output, stops>>

\* phase 3: post_scrape_menu answered Q, then the second save_results
PostScrapeQuit ==
    /\ pc = "menu"
    /\ output' = [st |-> "complete", data |-> master_list]
    /\ pc' = "exited"
    /\ outcome' = "complete"
    /\ UNCHANGED <<sub, phase, env, resume, master_list, start_index, i, institution_names,
                   empty_institutions, data, processed_data, errors, arg_index,
                   ret, visited, ckpt, errlog, saved, stops>>

(* ---- stopping the process --------------------------------------------- *)
\* positions inside the try block of main()
InTry == outcome = "running" /\ pc \notin {"boot", "exited"}

\* the index the except KeyboardInterrupt handler passes to save_checkpoint
HandlerIndex ==
    IF phase = 3 THEN start_index
    ELSE IF i # Unbound THEN i + 1 ELSE start_index

\* except KeyboardInterrupt: phase 1 writes OUTPUT_JSON only, the others
\* call save_checkpoint (phase 3 then save_results)
Interrupt ==
    /\ InTry
    /\ stops < MaxStops
    /\ stops' = stops + 1
    /\ outcome' = "interrupted"
    /\ IF phase = 1
       THEN /\ output' = [st |-> "complete", data |-> master_list]
            /\ pc' = "exited"
            /\ UNCHANGED <<arg_index, ret>>
       ELSE /\ CallSave(HandlerIndex, IF phase = 3 THEN "results" ELSE "exited")
            /\ UNCHANGED output
    /\ UNCHANGED <<sub, phase, env, resume, master_list, start_index, i, institution_names,
                   empty_institutions, data, processed_data, errors, visited,
                   ckpt, errlog, saved>>

\* phase 3 handler: save_results(master_list) after the checkpoint
HandlerResults ==
    /\ pc = "results"
    /\ output' = [st |-> "complete", data |-> master_list]
    /\ pc' = "exited"
    /\ UNCHANGED <<sub, phase, env, resume, outcome, master_list, start_index, i,
                   institution_names, empty_institutions, data, processed_data,
                   errors, arg_index, ret, visited, ckpt, errlog, saved, stops>>

\* the process is killed (power loss, kill -9): memory is gone, the disk stays
Kill ==
    /\ pc \notin {"boot", "exited"}
    /\ stops < MaxStops
    /\ stops' = stops + 1
    /\ NewProcess
    /\ UNCHANGED <<sub, phase, env, disk>>

\* the operator starts the phase again after an interrupted or aborted run
Restart ==
    /\ pc = "exited"
    /\ outcome # "complete"
    /\ NewProcess
    /\ UNCHANGED <<sub, phase, env, disk, stops>>

Next ==
    \/ \E ans \in BOOLEAN : LoadCheckpoint(ans)
    \/ Login
    \/ \E found \in BOOLEAN : Enumerate(found)
    \/ ForNext
    \/ ScrapeInstitution
    \/ RecordOutcome
    \/ CheckUrl
    \/ ExtractProfile
    \/ RateLimit
    \/ OpenCheckpoint
    \/ DumpCheckpoint
    \/ OpenErrorLog
    \/ DumpErrorLog
    \/ WriteOutput
    \/ Cleanup
    \/ PostScrapeQuit
    \/ Interrupt
    \/ HandlerResults
    \/ Kill
    \/ Restart

Spec == Init /\ [][Next]_vars

(* ---- one run that nobody stops, with inputs of several batches -------- *)
\* master lists of BATCH_SIZE or BatchItems records, one of them at the end
\* of a batch being of any kind
BatchLists ==
    {[k \in 1..n |-> IF k = j THEN q ELSE "ok"] :
        n \in {BATCH_SIZE, BatchItems}, j \in {BATCH_SIZE, 2 * BATCH_SIZE},
        q \in ItemKinds}

RunInit ==
    /\ phase \in Phases
    /\ env \in IF phase \in HarvestPhases THEN ScopeEnvs ELSE ItemLists \cup BatchLists
    /\ pc = "boot"
    /\ outcome = "running"
    /\ master_list = <<>>
    /\ resume = FALSE
    /\ start_index = 0
    /\ i = Unbound
    /\ institution_names = <<>>
    /\ empty_institutions = <<>>
    /\ data = NoData
    /\ processed_data = <<>>
    /\ errors = <<>>
    /\ arg_index = 0
    /\ ret = "none"
    /\ visited = {}
    /\ ckpt = NoFile
    /\ errlog = NoErr
    /\ output = NoOut
    /\ saved = FALSE
    /\ stops = 0
    /\ PagerIdle
    /\ RevisitIdle
    /\ SettleIdle
    /\ SelectIdle
    /\ AuxIdle
    /\ SectionIdle
    /\ MenuIdle

RunNext ==
    \/ \E ans \in BOOLEAN : LoadCheckpoint(ans)
    \/ Login
    \/ \E found \in BOOLEAN : Enumerate(found)
    \/ ForNext
    \/ ScrapeInstitution
    \/ RecordOutcome
    \/ CheckUrl
    \/ ExtractProfile
    \/ RateLimit
    \/ OpenCheckpoint
    \/ FailCheckpoint
    \/ DumpCheckpoint
    \/ OpenErrorLog
    \/ DumpErrorLog
    \/ WriteOutput
    \/ Cleanup
    \/ PostScrapeQuit
    \/ HandlerResults

RunSpec == RunInit /\ [][RunNext]_vars


(* ====================================================================== *)
(* Pagination of one scope: scrape_all_pages_for_institution (phase 1,    *)
(* phase 3 v2.0) and the pagination loop of phase 5.  The remote pager is *)
(* an adversary: every read of the label, of the next control and every   *)
(* click may give any of the outcomes the page driver can produce.  Here  *)
(* env is the number of items the remote grid holds for the scope.        *)
(* ====================================================================== *)
PagerPhases == {1, 3, 5}

\* the locals of main() while the pagination code is looked at on its own
MainIdle ==
    /\ pc = "scrape"
    /\ outcome = "running"
    /\ master_list = <<>>
    /\ resume = FALSE
    /\ start_index = 0
    /\ i = 0
    /\ institution_names = <<>>
    /\ empty_institutions = <<>>
    /\ data = NoData
    /\ processed_data = <<>>
    /\ errors = <<>>
    /\ arg_index = 0
    /\ ret = "none"
    /\ visited = {}
    /\ ckpt = NoFile
    /\ errlog = NoErr
    /\ output = NoOut
    /\ saved = FALSE
    /\ stops = 0

main == <<phase, env, mem, disk, stops>>
xpager == <<main, revisit, settle, select, rest>>

Min(a, b) == IF a < b THEN a ELSE b

\* "1 - 50 of 120 items": the label of a grid of env items showing page p
Window(p) == <<PageRows * (p - 1) + 1, Min(PageRows * p, env), env>>

\* what parse_pagination_info can return while the grid shows page p: the
\* label of that page, the label of page 1 (not refreshed yet), or (0, 0, 0)
\* when the label is missing, says "No items to display" or does not parse
Labels(p) ==
    {Unparsed}
        \cup (IF env > 0 THEN {Window(1)} ELSE {})
        \cup (IF PageRows * (p - 1) < env THEN {Window(p)} ELSE {})

SafetyLimit ==
    IF phase = 1 THEN SAFETY_LIMIT_PHASE1
    ELSE IF phase = 3 THEN SAFETY_LIMIT_PHASE3
    ELSE SAFETY_LIMIT_PHASE5

PagerInit ==
    /\ phase \in PagerPhases
    /\ env \in 0..MaxTotal
    /\ MainIdle
    /\ ppc = "start"
    /\ current_page = 1
    /\ grid_page = 1
    /\ window = Unparsed
    /\ next_enabled = FALSE
    /\ pages_scraped = 0
    /\ next_clicks = 0
    /\ RevisitIdle
    /\ SettleIdle
    /\ SelectIdle
    /\ AuxIdle
    /\ SectionIdle
    /\ MenuIdle

\* the code before the while loop: phase 1 reads the label and returns [] on
\* total == 0; phase 3 v2.0 waits for rows (came: whether any came) and
\* returns [] without them; phase 5 enters the loop directly
FirstPage(w, came) ==
    /\ ppc = "start"
    /\ window' = w
    /\ ppc' = IF phase = 1 THEN (IF w[3] = 0 THEN "returned" ELSE "scrape")
              ELSE IF phase = 3 THEN (IF came THEN "scrape" ELSE "returned")
              ELSE "scrape"
    /\ UNCHANGED <<xpager, current_page, grid_page, next_enabled, pages_scraped,
                   next_clicks>>

\* scrape_current_page / scrape_rows on the page the grid shows
ScrapePage ==
    /\ ppc = "scrape"
    /\ pages_scraped' = pages_scraped + 1
    /\ ppc' = "check"
    /\ UNCHANGED <<xpager, current_page, grid_page, window, next_enabled, next_clicks>>

\* the test after a page was scraped: phase 1 and phase 5 break on
\* "end >= total", then on "not has_next_page"; phase 3 v2.0 breaks on
\* "not has_next_page(driver) or (total_now > 0 and end >= total_now)"
StopPaging(w, nx) ==
    IF phase = 3
    THEN ~nx \/ (w[3] > 0 /\ w[2] >= w[3])
    ELSE w[2] >= w[3] \/ ~nx

\* where the code goes once the loop is left with current_page = cp
AfterLoop(cp) == IF phase # 5 /\ cp > 1 THEN "reset" ELSE "returned"

\* a loop without the safety limit
LimitReached_Never(cp) == FALSE

\* "if current_page > 50: break" (200 in phase 3 v2.0, 500 in phase 5)
LimitReached(cp) == cp > SafetyLimit

\* parse_pagination_info and has_next_page after the page was scraped
CheckNextPage(w, nx) ==
    /\ ppc = "check"
    /\ w \in Labels(grid_page)
    /\ window' = w
    /\ next_enabled' = nx
    /\ ppc' = IF StopPaging(w, nx) THEN AfterLoop(current_page) ELSE "click"
    /\ UNCHANGED <<xpager, current_page, grid_page, pages_scraped, next_clicks>>

\* click_next_page (ok: it returned True), then in phase 3 v2.0 the wait for
\* the rows of the new page (came: whether any came, after the one retry),
\* then the increment of current_page and the safety limit
ClickNextPage(ok, came) ==
    /\ ppc = "click"
    /\ IF ~ok
       THEN /\ ppc' = AfterLoop(current_page)
            /\ UNCHANGED <<current_page, grid_page, next_clicks>>
       ELSE /\ grid_page' = grid_page + 1
            /\ next_clicks' = next_clicks + 1
            /\ IF phase = 3 /\ ~came
               THEN /\ ppc' = AfterLoop(current_page)
                    /\ UNCHANGED current_page
               ELSE /\ current_page' = current_page + 1
                    /\ ppc' = IF LimitReached(current_page + 1)
                              THEN AfterLoop(current_page + 1)
                              ELSE "scrape"
    /\ UNCHANGED <<xpager, window, next_enabled, pages_scraped>>

FirstButton == {"clicked", "disabled", "unclickable"}

\* reset_to_first_page: returns without a click when the parsed start is <= 1,
\* when the first-page button is reported disabled, or when waiting for the
\* button raised; its result is not looked at by the caller
ResetToFirstPage(w, btn) ==
    /\ ppc = "reset"
    /\ w \in Labels(grid_page)
    /\ window' = w
    /\ grid_page' = IF w[1] > 1 /\ btn = "clicked" THEN 1 ELSE grid_page
    /\ ppc' = "returned"
    /\ UNCHANGED <<xpager, current_page, next_enabled, pages_scraped, next_clicks>>

PagerNext ==
    \/ \E w \in Labels(1), came \in BOOLEAN : FirstPage(w, came)
    \/ ScrapePage
    \/ \E w \in Labels(grid_page), nx \in BOOLEAN : CheckNextPage(w, nx)
    \/ \E ok \in BOOLEAN, came \in BOOLEAN : ClickNextPage(ok, came)
    \/ \E w \in Labels(grid_page), btn \in FirstButton : ResetToFirstPage(w, btn)

PagerSpec == PagerInit /\ [][PagerNext]_vars

\* the pagination code always gets to run: it is sequential code whose every
\* wait has a timeout
PagerLive == PagerSpec /\ WF_vars(PagerNext)

(* ====================================================================== *)
(* Post-scrape re-visit (phase 3 v2.0): _revisit_targets, called by       *)
(* post_scrape_menu with the entries of empty_institutions to re-scrape.  *)
(* master_list may hold records of the re-visited scope from an earlier   *)
(* attempt (a resumed run whose checkpoint data already had them).        *)
(* ====================================================================== *)
Scopes == 0..(NumScopes - 1)

\* a record as scrape_rows builds it: its "Institution" and its row
AllRecords == {<<Name(u), k>> : u \in Scopes, k \in 1..MaxRecs}
OldLists == UNION {[1..n -> AllRecords] : n \in 0..MaxOld}

Entry(u) == [index |-> u, name |-> Name(u), reason |-> "no_data"]
TargetLists ==
    {[k \in 1..Len(q) |-> Entry(q[k])] :
        q \in {r \in UNION {[1..n -> Scopes] : n \in 1..MaxTargets} :
                  \A a, b \in 1..Len(r) : r[a] = r[b] => a = b}}

\* what scrape_institution can return for scope u: None, [] or its rows
FetchResults(u) ==
    {[none |-> TRUE, recs |-> <<>>]}
        \cup {[none |-> FALSE, recs |-> [k \in 1..n |-> <<Name(u), k>>]] : n \in 0..MaxRecs}

\* empty_institutions as the main loop leaves it: entries in index order
EmptyLists ==
    {[k \in 1..Len(q) |-> Entry(q[k])] :
        q \in {r \in UNION {[1..n -> Scopes] : n \in 1..NumScopes} :
                  \A a, b \in 1..Len(r) : a < b => r[a] < r[b]}}

\* the entry stands in the list
Listed(e, list) == \E k \in 1..Len(list) : list[k].name = e.name

IsOf(r, name) == r[1] = name

\* a re-visit that keeps the old records
Kept_All(list, name) == list

\* [r for r in master_list if r.get("Institution") != uni_name]
Kept(list, name) == SelectSeq(list, LAMBDA r : ~IsOf(r, name))

RevisitInit ==
    /\ phase = 3
    /\ env = [k \in 1..NumScopes |-> 0]
    /\ pc = "revisit"
    /\ outcome = "running"
    /\ master_list \in OldLists
    /\ resume = FALSE
    /\ start_index = 0
    /\ i = Unbound
    /\ institution_names = AllNames
    /\ targets \in TargetLists
    /\ menu_choice \in {"A", "S"}
    /\ empty_institutions \in
           IF menu_choice = "A"
           THEN {targets}
           ELSE {e \in EmptyLists : \A k \in 1..Len(targets) : Listed(targets[k], e)}
    /\ chosen = targets
    /\ old_empty = empty_institutions
    /\ data = NoData
    /\ processed_data = <<>>
    /\ errors = <<>>
    /\ arg_index = 0
    /\ ret = "none"
    /\ visited = {}
    /\ ckpt = NoFile
    /\ errlog = NoErr
    /\ output = NoOut
    /\ saved = FALSE
    /\ stops = 0
    /\ still_empty = <<>>
    /\ before = <<>>
    /\ fetched = NoData
    /\ PagerIdle
    /\ SettleIdle
    /\ SelectIdle
    /\ AuxIdle
    /\ SectionIdle
    /\ MenuIdle

revisit_frame == <<pager, settle, select, rest, phase, env, outcome, resume, start_index, institution_names,
                   empty_institutions, processed_data, errors, arg_index, ret,
                   visited, errlog, output, stops>>

\* for item in targets: drop the records already collected for item["name"]
RemoveOld ==
    /\ pc = "revisit"
    /\ targets # <<>>
    /\ i' = Head(targets).index
    /\ before' = master_list
    /\ master_list' = Kept(master_list, Head(targets).name)
    /\ pc' = "revisit_scrape"
    /\ UNCHANGED <<revisit_frame, data, ckpt, saved, targets, still_empty, fetched, asked>>

\* data = scrape_institution(driver, wait, uni_name, idx, ..)
Rescrape(d) ==
    /\ pc = "revisit_scrape"
    /\ d \in FetchResults(i)
    /\ data' = d
    /\ fetched' = d
    /\ pc' = "revisit_record"
    /\ UNCHANGED <<revisit_frame, i, master_list, ckpt, saved, targets, still_empty,
                   before, asked>>

\* still_empty.append(item) or master_list.extend(data), then
\* save_checkpoint(master_list, idx + 1, institution_names,
\*                 [e for e in old_empty if e["name"] != uni_name])
RevisitRecord ==
    /\ pc = "revisit_record"
    /\ IF data.none \/ Len(data.recs) = 0
       THEN /\ still_empty' = Append(still_empty, Head(targets))
            /\ UNCHANGED master_list
       ELSE /\ master_list' = master_list \o data.recs
            /\ UNCHANGED still_empty
    /\ ckpt' = [st |-> "complete",
                current_index |-> i + 1,
                data |-> master_list',
                institution_names |-> institution_names,
                empty_institutions |->
                    SelectSeq(empty_institutions,
                              LAMBDA e : e.name # Head(targets).name)]
    /\ saved' = TRUE
    /\ data' = NoData
    /\ targets' = Tail(targets)
    /\ pc' = "revisit"
    /\ UNCHANGED <<revisit_frame, i, before, fetched, asked>>

\* return still_empty
RevisitReturn ==
    /\ pc = "revisit"
    /\ targets = <<>>
    /\ pc' = "revisit_done"
    /\ UNCHANGED <<revisit_frame, i, master_list, data, ckpt, saved, revisit>>

\* option S: [e for e in empty_institutions
\*            if e["name"] in newly_empty_names(newly_empty)]
StillListed(list, newly_empty) ==
    SelectSeq(list, LAMBDA e : Listed(e, newly_empty))

\* post_scrape_menu after _revisit_targets returned: option A takes the
\* returned list, option S filters its own; the menu breaks with "no more
\* empty institutions" when the list is empty, else it asks again
PostScrapeAfter ==
    /\ pc = "revisit_done"
    /\ empty_institutions' = IF menu_choice = "A"
                             THEN still_empty
                             ELSE StillListed(empty_institutions, still_empty)
    /\ pc' = IF empty_institutions' = <<>> THEN "menu_done" ELSE "menu_again"
    /\ UNCHANGED <<pager, settle, select, rest, revisit, phase, env, outcome, resume,
                   start_index, institution_names, processed_data, errors, arg_index,
                   ret, visited, errlog, output, stops, i, master_list, data, ckpt,
                   saved>>

RevisitNext ==
    \/ RemoveOld
    \/ \E d \in FetchResults(i) : Rescrape(d)
    \/ RevisitRecord
    \/ RevisitReturn
    \/ PostScrapeAfter

RevisitSpec == RevisitInit /\ [][RevisitNext]_vars

(* ====================================================================== *)
(* The first page of a scope: wait_for_rows_stable, wait_for_rows_with_   *)
(* retry and the code of scrape_all_pages_for_institution before its      *)
(* loop (phase 3 v2.0), next to phase 1, which reads the pager label      *)
(* once.  The remote grid is an adversary: every poll may find any number *)
(* of rows and every read of the label any total.  The result goes to the *)
(* loop body of main(), which records the outcome of the scope.           *)
(* ====================================================================== *)
SettlePhases == {1, 3}

\* the polling loop sleeps ROW_STABLE_INTERVAL per iteration until the
\* deadline ROW_STABLE_TIMEOUT after its start
MaxPolls == ROW_STABLE_TIMEOUT \div ROW_STABLE_INTERVAL

SettleInit ==
    /\ phase \in SettlePhases
    /\ env = [k \in 1..NumScopes |-> 0]
    /\ pc = "scrape"
    /\ outcome = "running"
    /\ master_list = <<>>
    /\ resume = FALSE
    /\ start_index = 0
    /\ i = 0
    /\ institution_names = AllNames
    /\ empty_institutions = <<>>
    /\ data = NoData
    /\ processed_data = <<>>
    /\ errors = <<>>
    /\ arg_index = 0
    /\ ret = "none"
    /\ visited = {0}
    /\ ckpt = NoFile
    /\ errlog = NoErr
    /\ output = NoOut
    /\ saved = FALSE
    /\ stops = 0
    /\ PagerIdle
    /\ RevisitIdle
    /\ spc = "start"
    /\ sret = "none"
    /\ polls = 0
    /\ last_count = -1
    /\ streak = 0
    /\ rows = 0
    /\ stable = FALSE
    /\ attempt = 0
    /\ zero_attempts = 0
    /\ is_empty = FALSE
    /\ label_total = 0
    /\ handed = NotHanded
    /\ SelectIdle
    /\ AuxIdle
    /\ SectionIdle
    /\ MenuIdle

settle_frame == <<pager, revisit, select, rest, phase, env, outcome, master_list, resume,
                  start_index, i, institution_names, empty_institutions,
                  processed_data, errors, arg_index, ret, visited, disk, stops>>

\* rows = wait_for_rows_stable(driver), called at `site`
CallStable(site) ==
    /\ spc' = "poll"
    /\ sret' = site
    /\ polls' = 0
    /\ last_count' = -1
    /\ streak' = 0

\* the n rows of scope i as scrape_rows extracts them
RowRecords(n) == [k \in 1..n |-> <<Name(i), k>>]

\* return [] of scrape_all_pages_for_institution
ReturnEmpty ==
    /\ spc' = "returned"
    /\ data' = [none |-> FALSE, recs |-> <<>>]
    /\ pc' = "record"

\* the first statements of scrape_all_pages_for_institution: phase 1 reads
\* the label and returns [] on total == 0, otherwise scrapes the n rows it
\* finds; phase 3 v2.0 calls wait_for_rows_with_retry
StartScope(total, n) ==
    /\ spc = "start"
    /\ IF phase = 1
       THEN /\ label_total' = total
            /\ IF total = 0
               THEN ReturnEmpty
               ELSE /\ spc' = "returned"
                    /\ data' = [none |-> FALSE, recs |-> RowRecords(n)]
                    /\ pc' = "record"
            /\ UNCHANGED <<sret, polls, last_count, streak>>
       ELSE /\ CallStable("first")
            /\ UNCHANGED <<label_total, data, pc>>
    /\ UNCHANGED <<settle_frame, rows, stable, attempt, zero_attempts, is_empty,
                   handed>>

\* one test of "while time.time() < deadline" and, inside the deadline, one
\* iteration of the loop of wait_for_rows_stable that finds `count` rows;
\* expired: the time the reads took has used up the timeout already
Poll(count, expired) ==
    /\ spc = "poll"
    /\ IF polls >= MaxPolls \/ (expired /\ polls >= 1)
       THEN /\ spc' = "final_read"
            /\ UNCHANGED <<polls, last_count, streak, rows, stable>>
       ELSE IF count = last_count /\ count > 0
       THEN IF streak + 1 >= ROW_STABLE_POLLS
            THEN /\ streak' = streak + 1
                 /\ rows' = count
                 /\ stable' = TRUE
                 /\ spc' = "after_stable"
                 /\ UNCHANGED <<polls, last_count>>
            ELSE /\ streak' = streak + 1
                 /\ polls' = polls + 1
                 /\ UNCHANGED <<spc, last_count, rows, stable>>
       ELSE /\ streak' = 0
            /\ last_count' = count
            /\ polls' = polls + 1
            /\ UNCHANGED <<spc, rows, stable>>
    /\ UNCHANGED <<settle_frame, pc, data, sret, attempt, zero_attempts, is_empty,
                   label_total, handed>>

\* "Return whatever we have": the read after the deadline
FinalRead(count) ==
    /\ spc = "final_read"
    /\ rows' = count
    /\ stable' = FALSE
    /\ spc' = "after_stable"
    /\ UNCHANGED <<settle_frame, pc, data, sret, polls, last_count, streak, attempt,
                   zero_attempts, is_empty, label_total, handed>>

\* "if rows: return rows, False", and after it the first scrape_rows(rows)
HandRows ==
    /\ spc' = "scrape_rows"
    /\ handed' = [n |-> rows, stable |-> stable, any |-> TRUE]
    /\ UNCHANGED <<pc, data, sret, polls, last_count, streak, attempt,
                   zero_attempts, is_empty, label_total>>

\* the end of one attempt of "for attempt in range(1, EMPTY_MAX_RETRIES + 1)"
\* without rows; after the last one: return [], True
NextAttempt ==
    /\ zero_attempts' = zero_attempts + 1
    /\ IF attempt < EMPTY_MAX_RETRIES
       THEN /\ attempt' = attempt + 1
            /\ CallStable("retry")
            /\ UNCHANGED is_empty
       ELSE /\ is_empty' = TRUE
            /\ spc' = "empty_check"
            /\ UNCHANGED <<attempt, sret, polls, last_count, streak>>
    /\ UNCHANGED <<pc, data, handed>>

\* the code after each call of wait_for_rows_stable: the first attempt
\* ("first"), an attempt of the retry loop ("retry"), the extra wait when the
\* label says total > 0 ("extra"), and the wait of
\* scrape_all_pages_for_institution after is_empty ("last")
AfterStable(total) ==
    /\ spc = "after_stable"
    /\ IF rows > 0
       THEN HandRows
       ELSE IF sret = "first"
       THEN /\ attempt' = 1
            /\ CallStable("retry")
            /\ UNCHANGED <<pc, data, zero_attempts, is_empty, label_total, handed>>
       ELSE IF sret = "retry"
       THEN /\ label_total' = total
            /\ IF total > 0
               THEN /\ CallStable("extra")
                    /\ UNCHANGED <<pc, data, attempt, zero_attempts, is_empty, handed>>
               ELSE NextAttempt
       ELSE IF sret = "extra"
       THEN /\ NextAttempt
            /\ UNCHANGED label_total
       ELSE /\ ReturnEmpty
            /\ UNCHANGED <<sret, polls, last_count, streak, attempt, zero_attempts,
                           is_empty, label_total, handed>>
    /\ UNCHANGED <<settle_frame, rows, stable>>

\* "if is_empty:" one final check via the pagination label; total == 0
\* returns [], otherwise 10 s of sleep and one more wait_for_rows_stable
EmptyCheck(total) ==
    /\ spc = "empty_check"
    /\ label_total' = total
    /\ IF total = 0
       THEN /\ ReturnEmpty
            /\ UNCHANGED <<sret, polls, last_count, streak>>
       ELSE /\ CallStable("last")
            /\ UNCHANGED <<pc, data>>
    /\ UNCHANGED <<settle_frame, rows, stable, attempt, zero_attempts, is_empty,
                   handed>>

\* scrape_rows(rows, institution_name) on the first page and the return of
\* its records (the pages after the first are the pagination loop's)
ScrapeRows ==
    /\ spc = "scrape_rows"
    /\ data' = [none |-> FALSE, recs |-> RowRecords(handed.n)]
    /\ pc' = "record"
    /\ spc' = "returned"
    /\ UNCHANGED <<settle_frame, sret, polls, last_count, streak, rows, stable,
                   attempt, zero_attempts, is_empty, label_total, handed>>

LabelTotals == {0, MaxTotal}

SettleNext ==
    \/ \E total \in LabelTotals, n \in 0..MaxRows : StartScope(total, n)
    \/ \E count \in 0..MaxRows, expired \in BOOLEAN : Poll(count, expired)
    \/ \E count \in 0..MaxRows : FinalRead(count)
    \/ \E total \in LabelTotals : AfterStable(total)
    \/ \E total \in LabelTotals : EmptyCheck(total)
    \/ ScrapeRows
    \/ RecordOutcome
    \/ OpenCheckpoint
    \/ DumpCheckpoint

SettleSpec == SettleInit /\ [][SettleNext]_vars

(* ====================================================================== *)
(* select_institution (phase 1 and phase 3 v2.0).  The option texts are   *)
(* short strings over Chars; every call of the page driver inside the try *)
(* block may raise (timeout, stale element, any other driver exception).  *)
(* ====================================================================== *)
SelectPhases == {1, 3}

Chars == {"a", "b"}
Texts == UNION {[1..n -> Chars] : n \in 0..MaxText}
OptionLists == UNION {[1..n -> Texts] : n \in 0..MaxOptions}

\* Python's "a in b" on strings
IsIn(a, b) == \E k \in 0..(Len(b) - Len(a)) : SubSeq(b, k + 1, k + Len(a)) = a

\* the test of the option loop: phase 1 "target_name in opt_text or opt_text
\* in target_name", phase 3 v2.0 "target_name in opt.text"
Matches(text) ==
    IF phase = 1
    THEN IsIn(target_name, text) \/ IsIn(text, target_name)
    ELSE IsIn(target_name, text)

\* the first option of the list the loop stops at, 0 when it runs to the end
FirstMatch ==
    IF \E k \in 1..Len(options) : Matches(options[k])
    THEN CHOOSE k \in 1..Len(options) :
             /\ Matches(options[k])
             /\ \A j \in 1..(k - 1) : ~Matches(options[j])
    ELSE 0

SelectInit ==
    /\ phase \in SelectPhases
    /\ env = [k \in 1..NumScopes |-> 0]
    /\ MainIdle
    /\ PagerIdle
    /\ RevisitIdle
    /\ SettleIdle
    /\ sel = "open"
    /\ options \in OptionLists
    /\ target_name \in Texts \ {<<>>}
    /\ selected = 0
    /\ result = "none"
    /\ excepted = FALSE
    /\ AuxIdle
    /\ SectionIdle
    /\ MenuIdle

xselect == <<main, pager, revisit, settle, rest>>

\* wait.until(element_to_be_clickable(trigger)), trigger.click(),
\* wait.until(visibility_of_element_located(listbox))
OpenDropdown(raises) ==
    /\ sel = "open"
    /\ sel' = IF raises THEN "except" ELSE "match"
    /\ UNCHANGED <<xselect, options, target_name, selected, result, excepted>>

\* the loop over listbox.find_elements(By.TAG_NAME, "li")
MatchOption(raises) ==
    /\ sel = "match"
    /\ sel' = IF raises THEN "except"
              ELSE IF FirstMatch = 0 THEN "close"
              ELSE "click"
    /\ UNCHANGED <<xselect, options, target_name, selected, result, excepted>>

\* driver.execute_script("arguments[0].click();", opt), the wait, return True
ClickOption(raises) ==
    /\ sel = "click"
    /\ IF raises
       THEN /\ sel' = "except"
            /\ UNCHANGED <<selected, result>>
       ELSE /\ selected' = FirstMatch
            /\ result' = "True"
            /\ sel' = "returned"
    /\ UNCHANGED <<xselect, options, target_name, excepted>>

\* no option matched: driver.find_element(By.TAG_NAME, "body").click(),
\* return False
CloseDropdown(raises) ==
    /\ sel = "close"
    /\ IF raises
       THEN /\ sel' = "except"
            /\ UNCHANGED result
       ELSE /\ result' = "False"
            /\ sel' = "returned"
    /\ UNCHANGED <<xselect, options, target_name, selected, excepted>>

\* an except clause that lets the exception go on
ExceptResult_Reraise == "raised"

\* what the except clauses end with: return False
ExceptResult == "False"

\* except Exception: the click on body in its own try / except, return False
HandleException ==
    /\ sel = "except"
    /\ excepted' = TRUE
    /\ result' = ExceptResult
    /\ sel' = "returned"
    /\ UNCHANGED <<xselect, options, target_name, selected>>

SelectNext ==
    \/ \E raises \in BOOLEAN : OpenDropdown(raises)
    \/ \E raises \in BOOLEAN : MatchOption(raises)
    \/ \E raises \in BOOLEAN : ClickOption(raises)
    \/ \E raises \in BOOLEAN : CloseDropdown(raises)
    \/ HandleException

SelectSpec == SelectInit /\ [][SelectNext]_vars

(* ====================================================================== *)
(* The profile of one item: extract_expert_full_profile, extract_facility_ *)
(* full_profile, extract_organization_full_profile (phases 2, 4, 6). The   *)
(* section of the page holds MaxFields fields; an extractor stores them    *)
(* one by one into its `data` and returns `data` from its except clause.   *)
(* ====================================================================== *)
\* the sections the profile of the phase is assembled from
NumSections == IF phase = 2 THEN 9 ELSE IF phase = 4 THEN 12 ELSE 10

SectionInit ==
    /\ phase \in DetailPhases
    /\ env \in {<<"ok">>, <<"nourl">>}
    /\ MainIdle
    /\ PagerIdle
    /\ RevisitIdle
    /\ SettleIdle
    /\ SelectIdle
    /\ AuxIdle
    /\ MenuIdle
    /\ xpc = "start"
    /\ profile = NoProfile
    /\ faulted = {}

xsection == <<main, pager, revisit, settle, select, aux, menu>>

\* the url test, driver.get(url), the wait for the panel bar, expand_all_
\* accordions and the Meta block; `loaded` is FALSE when driver.get raises or
\* the wait times out
LoadPage(loaded) ==
    /\ xpc = "start"
    /\ IF NoValidUrl(0) \/ ~loaded
       THEN /\ profile' = NoProfile
            /\ xpc' = "returned"
       ELSE /\ profile' = [none |-> FALSE, meta |-> TRUE, sections |-> <<>>]
            /\ xpc' = "sections"
    /\ UNCHANGED <<xsection, faulted>>

\* profile[<section>] = extract_<section>(driver): the extractor returns its
\* `data` with all the fields, or, when an exception reached its except
\* clause, with the `got` fields stored before it
ExtractSection(got, raised) ==
    /\ xpc = "sections"
    /\ Len(profile.sections) < NumSections
    /\ ~raised => got = MaxFields
    /\ raised => Cardinality(faulted) < MaxFaults
    /\ profile' = [profile EXCEPT !.sections = Append(@, got)]
    /\ faulted' = IF raised THEN faulted \cup {Len(profile.sections) + 1} ELSE faulted
    /\ UNCHANGED <<xsection, xpc>>

\* return profile
ReturnProfile ==
    /\ xpc = "sections"
    /\ Len(profile.sections) = NumSections
    /\ xpc' = "returned"
    /\ UNCHANGED <<xsection, profile, faulted>>

SectionNext ==
    \/ \E loaded \in BOOLEAN : LoadPage(loaded)
    \/ \E got \in 0..MaxFields, raised \in BOOLEAN : ExtractSection(got, raised)
    \/ ReturnProfile

SectionSpec == SectionInit /\ [][SectionNext]_vars


(* ====================================================================== *)
(* The controller: BrowserSession, check_phase_dependency and run_phase.   *)
(* dep_output[n] is the output_json of metadata phase n as the controller  *)
(* sees it: "missing", "empty" (count_json_records gives 0) or "records".  *)
(* ====================================================================== *)
MetadataPhases == {1, 3, 5}

\* PHASE_INFO[n]["depends_on"], 0 for None
DependsOn(n) == IF n \in DetailPhases THEN n - 1 ELSE 0

\* a gate that only looks whether the file is there
DependencyOk_ExistsOnly(n) == DependsOn(n) = 0 \/ dep_output[DependsOn(n)] # "missing"

\* check_phase_dependency(n)[0]
DependencyOk(n) == DependsOn(n) = 0 \/ dep_output[DependsOn(n)] = "records"

MenuInit ==
    /\ phase = 1
    /\ env = [k \in 1..NumScopes |-> 0]
    /\ MainIdle
    /\ PagerIdle
    /\ RevisitIdle
    /\ SettleIdle
    /\ SelectIdle
    /\ AuxIdle
    /\ SectionIdle
    /\ rpc = "menu"
    /\ phase_num = 0
    /\ driver = "none"
    /\ is_logged_in = FALSE
    /\ authed = FALSE
    /\ prompts = 0
    /\ dep_output \in [MetadataPhases -> {"missing", "empty", "records"}]
    /\ touched = {}
    /\ returned = "none"
    /\ module_end = "none"
    /\ pipeline = "none"
    /\ todo = <<>>
    /\ completed = <<>>
    /\ failed = <<>>
    /\ answer = "none"

xmenu == <<main, pager, revisit, settle, select, aux, section>>

\* BrowserSession.login(force) called while self.driver is d: a no-op when
\* is_logged_in and not force; else start(), driver.get(login) (which raises
\* on a dead window) and the manual login prompt
SessionLogin(d, force) ==
    IF is_logged_in /\ ~force
    THEN /\ driver' = d
         /\ authed' = (d # "none" /\ authed)
         /\ prompts' = IF d = "none" THEN 0 ELSE prompts
         /\ UNCHANGED is_logged_in
    ELSE IF d = "dead"
    THEN UNCHANGED <<driver, is_logged_in, authed, prompts>>
    ELSE /\ driver' = "alive"
         /\ is_logged_in' = TRUE
         /\ authed' = TRUE
         /\ prompts' = (IF d = "none" THEN 0 ELSE prompts) + 1

\* browser_management_menu: the status line calls is_active(), which forgets
\* a dead driver; then [1] browser.start(), [2] browser.login(force=True),
\* [6] browser.close(), which does nothing without a driver
BrowserMenu(choice) ==
    /\ rpc = "menu"
    /\ LET d == IF driver = "dead" THEN "none" ELSE driver
       IN  CASE choice = "1" ->
                 /\ driver' = "alive"
                 /\ authed' = (d # "none" /\ authed)
                 /\ prompts' = IF d = "none" THEN 0 ELSE prompts
                 /\ UNCHANGED is_logged_in
            [] choice = "2" ->
                 /\ prompts < MaxPrompts
                 /\ SessionLogin(d, TRUE)
            [] choice = "6" ->
                 /\ driver' = "none"
                 /\ is_logged_in' = (d = "none" /\ is_logged_in)
                 /\ authed' = FALSE
                 /\ prompts' = 0
    /\ UNCHANGED <<xmenu, rpc, phase_num, dep_output, touched, returned, module_end, pipe>>

\* pipelines[choice] of run_category_pipeline, range(1, 7) of run_full_pipeline
PipelinePhases(kind, choice) ==
    IF kind = "full" THEN <<1, 2, 3, 4, 5, 6>> ELSE <<2 * choice - 1, 2 * choice>>

\* run_category_pipeline / run_full_pipeline up to the for statement:
\* browser.login(), whose driver.get raises on a dead window, then the
\* empty completed and failed lists
StartPipeline(kind, choice) ==
    /\ rpc = "menu"
    /\ SessionLogin(driver, FALSE)
    /\ IF ~is_logged_in /\ driver = "dead"
       THEN UNCHANGED <<rpc, pipe>>
       ELSE /\ rpc' = "loop"
            /\ pipeline' = kind
            /\ todo' = PipelinePhases(kind, choice)
            /\ completed' = <<>>
            /\ failed' = <<>>
            /\ answer' = "none"
    /\ UNCHANGED <<xmenu, phase_num, dep_output, touched, returned, module_end>>

\* where a return of run_phase leads: the menu, or the pipeline that called
ReturnTo == IF pipeline = "none" THEN "menu" ELSE "after"

\* the operator closes the browser window: driver.current_url raises from now on
WindowClosed ==
    /\ driver = "alive"
    /\ driver' = "dead"
    /\ UNCHANGED <<xmenu, rpc, phase_num, is_logged_in, authed, prompts, dep_output,
                   touched, returned, module_end, pipe>>

\* run_phase(n) is called
CallRunPhase(n) ==
    /\ rpc = "menu"
    /\ rpc' = "gate"
    /\ phase_num' = n
    /\ touched' = {}
    /\ returned' = "none"
    /\ module_end' = "none"
    /\ UNCHANGED <<xmenu, driver, is_logged_in, authed, prompts, dep_output, pipe>>

\* dep_ok, missing_phase = check_phase_dependency(phase_num); return False
Gate ==
    /\ rpc = "gate"
    /\ IF DependencyOk(phase_num)
       THEN /\ rpc' = "resume"
            /\ UNCHANGED returned
       ELSE /\ rpc' = ReturnTo
            /\ returned' = "False"
    /\ UNCHANGED <<xmenu, phase_num, driver, is_logged_in, authed, prompts,
                   dep_output, touched, module_end, pipe>>

\* "Resume from checkpoint? (y/n/c to cancel)"
AskResume(cancel) ==
    /\ rpc = "resume"
    /\ rpc' = IF cancel THEN ReturnTo ELSE "ensure"
    /\ returned' = IF cancel THEN "False" ELSE returned
    /\ UNCHANGED <<xmenu, phase_num, driver, is_logged_in, authed, prompts,
                   dep_output, touched, module_end, pipe>>

\* if not use_session.is_active() or not use_session.is_logged_in:
\*     use_session.login()
\* is_active() forgets a dead driver and leaves is_logged_in as it is
EnsureLogin ==
    /\ rpc = "ensure"
    /\ LET d == IF driver = "dead" THEN "none" ELSE driver
       IN  IF d = "alive" /\ is_logged_in
           THEN /\ UNCHANGED <<driver, is_logged_in, authed, prompts, touched>>
           ELSE /\ SessionLogin(d, FALSE)
                /\ touched' = IF is_logged_in THEN touched ELSE touched \cup {"login"}
    /\ rpc' = "navigate"
    /\ UNCHANGED <<xmenu, phase_num, dep_output, returned, module_end, pipe>>

\* if info["url"]: use_session.navigate_to(info["url"], info["name"]), which
\* starts a browser when there is none; driver.get raises on a dead window
Navigate ==
    /\ rpc = "navigate"
    /\ IF phase_num \in MetadataPhases
       THEN IF driver = "dead"
            THEN /\ rpc' = ReturnTo
                 /\ returned' = "raised"
                 /\ UNCHANGED <<driver, authed, prompts, touched>>
            ELSE /\ driver' = "alive"
                 /\ authed' = (driver # "none" /\ authed)
                 /\ prompts' = IF driver = "none" THEN 0 ELSE prompts
                 /\ touched' = touched \cup {"navigate"}
                 /\ rpc' = "extract"
                 /\ UNCHANGED returned
       ELSE /\ rpc' = "extract"
            /\ UNCHANGED <<driver, authed, prompts, touched, returned>>
    /\ UNCHANGED <<xmenu, phase_num, is_logged_in, dep_output, module_end, pipe>>

\* the endings of a phase module's main(): the loop and the final save ran
\* ("complete"), its except KeyboardInterrupt or except Exception clause ran,
\* it returned early on a fatal precondition, or an exception left it
ModuleEndings == {"complete", "interrupted", "critical", "fatal", "raised"}

\* the try block of run_phase: result = module.main() is never looked at,
\* `return True` follows every return of main(), `except Exception` gives False
ExtractionResult(how) == IF how = "raised" THEN "False" ELSE "True"

\* "Starting extraction...": import_phase_module, the run of the module, and
\* what it left in the output_json of the phase
Extract(wrote, how) ==
    /\ rpc = "extract"
    /\ touched' = touched \cup {"module"}
    /\ dep_output' = IF phase_num \in MetadataPhases /\ wrote # "same"
                      THEN [dep_output EXCEPT ![phase_num] = wrote]
                      ELSE dep_output
    /\ module_end' = how
    /\ returned' = ExtractionResult(how)
    /\ rpc' = ReturnTo
    /\ UNCHANGED <<xmenu, phase_num, driver, is_logged_in, authed, prompts, pipe>>

\* the for statement of a pipeline: run_phase(phase_num, session=browser) for
\* the next phase, or the summary after the last one
PipelineFor ==
    /\ rpc = "loop"
    /\ IF todo = <<>>
       THEN /\ rpc' = "menu"
            /\ pipeline' = "none"
            /\ completed' = <<>>
            /\ failed' = <<>>
            /\ answer' = "none"
            /\ UNCHANGED <<phase_num, touched, returned, module_end>>
       ELSE /\ rpc' = "gate"
            /\ phase_num' = Head(todo)
            /\ touched' = {}
            /\ returned' = "none"
            /\ module_end' = "none"
            /\ UNCHANGED <<pipeline, completed, failed, answer>>
    /\ UNCHANGED <<xmenu, driver, is_logged_in, authed, prompts, dep_output, todo>>

\* a pipeline that goes on whatever run_phase returned
KeepGoing_Always(success, ans) == TRUE

\* `if not success: break` of run_category_pipeline; in run_full_pipeline
\* `if input().strip().lower() != 'y': break` after a failed phase
KeepGoing(success, ans) ==
    IF pipeline = "category" THEN success ELSE success \/ ans = "y"

\* the body of the pipeline's for loop after run_phase has returned; an
\* exception that left run_phase leaves the pipeline too
PipelineAfter(ans) ==
    /\ rpc = "after"
    /\ LET success == returned = "True"
       IN  IF returned = "raised"
           THEN /\ rpc' = "menu"
                /\ pipeline' = "none"
                /\ todo' = <<>>
                /\ completed' = <<>>
                /\ failed' = <<>>
                /\ answer' = "none"
           ELSE /\ completed' = IF pipeline = "full" /\ success
                                 THEN Append(completed, phase_num) ELSE completed
                /\ failed' = IF pipeline = "full" /\ ~success
                              THEN Append(failed, phase_num) ELSE failed
                /\ answer' = IF pipeline = "full" /\ ~success THEN ans ELSE answer
                /\ todo' = IF KeepGoing(success, ans) THEN Tail(todo) ELSE <<>>
                /\ rpc' = "loop"
                /\ UNCHANGED pipeline
    /\ UNCHANGED <<xmenu, phase_num, driver, is_logged_in, authed, prompts,
                   dep_output, touched, returned, module_end>>

MenuNext ==
    \/ \E choice \in {"1", "2", "6"} : BrowserMenu(choice)
    \/ \E choice \in 1..3 : StartPipeline("category", choice)
    \/ WindowClosed
    \/ \E n \in 1..6 : CallRunPhase(n)
    \/ Gate
    \/ \E cancel \in BOOLEAN : AskResume(cancel)
    \/ EnsureLogin
    \/ Navigate
    \/ \E wrote \in {"same", "empty", "records"}, how \in ModuleEndings :
           Extract(wrote, how)
    \/ PipelineFor
    \/ \E ans \in {"y", "n"} : PipelineAfter(ans)

MenuSpec == MenuInit /\ [][MenuNext]_vars

\* the two pipelines by themselves: the operator stays in the pipeline menu
PipelineNext ==
    \/ \E kind \in {"category", "full"}, choice \in 1..3 : StartPipeline(kind, choice)
    \/ PipelineFor
    \/ \E ans \in {"y", "n"} : PipelineAfter(ans)
    \/ WindowClosed
    \/ Gate
    \/ \E cancel \in BOOLEAN : AskResume(cancel)
    \/ EnsureLogin
    \/ Navigate
    \/ \E wrote \in {"same", "empty", "records"}, how \in ModuleEndings :
           Extract(wrote, how)

PipelineSpec == MenuInit /\ [][PipelineNext]_vars


(* ====================================================================== *)
(* The deduplication of phase 5: the pagination loop of main() adds the   *)
(* rows of a page to master_list unless their Manage_URL was seen before. *)
(* ====================================================================== *)
\* manage_url = "Not Found" of scrape_current_page, written 0; the manage
\* link of organization o is written o
NotFound == 0

\* what scrape_current_page can return: up to PageRows records of distinct
\* organizations, each with its own manage link or with "Not Found"
PageDatas ==
    {q \in UNION {[1..n -> [Organization_Name : 1..MaxOrgs,
                             Manage_URL : 0..MaxOrgs]] : n \in 0..PageRows} :
        /\ \A k \in 1..Len(q) : q[k].Manage_URL \in {NotFound, q[k].Organization_Name}
        /\ \A a, b \in 1..Len(q) :
               q[a].Organization_Name = q[b].Organization_Name => a = b}

\* for item in page_data: if item['Manage_URL'] not in existing_urls:
\*     master_list.append(item); existing_urls.add(item['Manage_URL'])
RECURSIVE AddNew(_, _, _)
AddNew(list, urls, page_data) ==
    IF page_data = <<>>
    THEN [list |-> list, urls |-> urls]
    ELSE LET item == Head(page_data)
         IN  IF item.Manage_URL \notin urls
             THEN AddNew(Append(list, item), urls \cup {item.Manage_URL}, Tail(page_data))
             ELSE AddNew(list, urls, Tail(page_data))

DedupInit ==
    /\ phase = 5
    /\ env = 0
    /\ MainIdle
    /\ PagerIdle
    /\ RevisitIdle
    /\ SettleIdle
    /\ SelectIdle
    /\ AuxIdle
    /\ SectionIdle
    /\ MenuIdle

\* one turn of the while loop: page_data = scrape_current_page(driver), then
\* the new records are added
MergePage(page_data) ==
    /\ pc = "scrape"
    /\ scraped' = scraped \cup {page_data[k] : k \in 1..Len(page_data)}
    /\ LET r == AddNew(master_list, existing_urls, page_data)
       IN  /\ master_list' = r.list
           /\ existing_urls' = r.urls
    /\ UNCHANGED <<pager, revisit, settle, select, save_failed, pauses, section, menu,
                   phase, env, pc, outcome, resume, start_index, i, institution_names,
                   empty_institutions, data, processed_data, errors, arg_index, ret,
                   visited, disk, stops>>

DedupNext == \E page_data \in PageDatas : MergePage(page_data)

DedupSpec == DedupInit /\ [][DedupNext]_vars

(* ====================================================================== *)
(* Properties                                                             *)
(* ====================================================================== *)
RECURSIVE UninterruptedRun(_)
\* what a run that is never stopped collects from the first n scopes
UninterruptedRun(n) == IF n = 0 THEN <<>> ELSE UninterruptedRun(n - 1) \o Recs(n - 1)

HarvestComplete == IsHarvest /\ pc = "exited" /\ outcome = "complete"

\* C1 (idempotent resume): whenever a harvest run (phase 1 or 3) completes,
\* possibly after kills or interrupts and resumes from the checkpoint on disk,
\* the final record collection is exactly the collection of an uninterrupted
\* run: every record once, none lost, none duplicated.
C1_IdempotentResume == HarvestComplete => output.data = UninterruptedRun(NumScopes)

\* the same statement for phase 1 alone
C1_Phase1Only == (HarvestComplete /\ phase = 1) => output.data = UninterruptedRun(NumScopes)

Range(q) == {q[k] : k \in 1..Len(q)}

LoopDone == outcome = "running" /\ pc \in {"final", "menu", "cleanup"}

\* C2 (resume cursor): after the operator resumed from a checkpoint with
\* current_index = n, start_index is n; the units the process selects,
\* navigates to or scrapes are exactly n, n+1, ... in order: none below n is
\* touched, none from n on is skipped, and the loop ends only after the last.
C2_ResumeCursor ==
    /\ (resume /\ outcome = "running" /\ pc \in {"login", "enum"})
          => start_index = ckpt.current_index
    /\ \A u \in visited : u >= start_index
    /\ i # Unbound => /\ visited \subseteq start_index..i
                      /\ start_index..(i - 1) \subseteq visited
    /\ LoopDone => visited = start_index..(LoopTotal - 1)

C2_Witness ==
    /\ resume
    /\ start_index = 1
    /\ LoopDone
    /\ visited = 1..(LoopTotal - 1)
    /\ LoopTotal > 1

\* the units whose records the remote source yields
Yields(u) == IF IsHarvest THEN Range(Recs(u))
             ELSE IF Env(u) = "ok" THEN {u} ELSE {}

\* C3 (crash consistency of the cursor): whenever the checkpoint file on disk
\* can be read, every unit its current_index counts has its records in the
\* data array of that same checkpoint.
C3_CursorConsistent ==
    IsCkpt(ckpt) =>
        \A u \in 0..(ckpt.current_index - 1) : Yields(u) \subseteq Range(ckpt.data)

\* the same statement for the harvest phases alone
C3_HarvestOnly == IsHarvest => C3_CursorConsistent

\* C4 (atomic rewrite): once a complete checkpoint has been saved (and not
\* removed by the completion cleanup), a process that starts and calls
\* load_checkpoint finds a complete checkpoint, never a torn or missing file.
C4_AtomicRewrite == (pc = "boot" /\ saved) => IsCkpt(ckpt)

Accumulated == IF IsHarvest THEN master_list ELSE processed_data

\* C5 (cancellation saves a checkpoint): in every phase, when main() has
\* returned after a KeyboardInterrupt raised once the loop had started, the
\* checkpoint file holds everything accumulated up to the interrupt.
C5_InterruptSaves ==
    (pc = "exited" /\ outcome = "interrupted" /\ i # Unbound)
        => (IsCkpt(ckpt) /\ ckpt.data = Accumulated)

\* the same statement without phase 1
C5_ExceptPhase1 == phase # 1 => C5_InterruptSaves

\* the number of units whose results are in the accumulated lists
CompletedUnits ==
    IF i = Unbound THEN start_index
    ELSE IF pc \in {"body", "record", "extract"} THEN i
    ELSE i + 1

\* C6 (cancellation index): the index the interrupt handler passes to
\* save_checkpoint equals the number of units fully completed at the moment of
\* the interrupt.
C6_CancellationIndex ==
    [][(outcome = "running" /\ outcome' = "interrupted" /\ pc' = "ckpt_open")
          => arg_index' = CompletedUnits]_vars

\* the same statement for phase 3 alone, and for the detail phases alone
C6_Phase3Only ==
    [][(phase = 3 /\ outcome = "running" /\ outcome' = "interrupted")
          => arg_index' = CompletedUnits]_vars

C6_DetailOnly ==
    [][(IsDetail /\ outcome = "running" /\ outcome' = "interrupted")
          => arg_index' = CompletedUnits]_vars

AtLoopHead == outcome = "running" /\ pc = "for" /\ i # Unbound

C8_DetailCadence ==
    (IsDetail /\ AtLoopHead)
        => /\ IsCkpt(ckpt)
           /\ ckpt.current_index = i + 1
           /\ ckpt.data = processed_data

\* the same statement for phase 6 alone
C8_Phase6Only == phase = 6 => C8_DetailCadence

\* C9 (scope isolation): when the harvest loop has ended, every scope after a
\* scope S whose selection failed or whose result was empty has been selected
\* and scraped in the same run, and the checkpoint on disk counts it.
C9_ScopeIsolation ==
    (IsHarvest /\ LoopDone) =>
        \A S \in visited :
            Env(S) <= 0 =>
                \A t \in (S + 1)..(LoopTotal - 1) :
                    /\ t \in visited
                    /\ IsCkpt(ckpt)
                    /\ ckpt.current_index > t

C9_Witness ==
    /\ IsHarvest
    /\ LoopDone
    /\ Env(0) < 0
    /\ Env(1) = 0
    /\ Env(2) > 0
    /\ visited = 0..2
    /\ ckpt.current_index = 3

Registered(f, u) ==
    \E k \in 1..Len(f.empty_institutions) :
        /\ f.empty_institutions[k].index = u
        /\ f.empty_institutions[k].name = Name(u)
        /\ f.empty_institutions[k].reason =
               (IF Env(u) < 0 THEN "selection_failed" ELSE "no_data")

\* C10 (outcome registry): in every readable checkpoint of a harvest phase,
\* every scope counted by current_index whose selection failed or that
\* yielded no record is in the persisted registry, with its index, name and
\* reason.
C10_OutcomeRegistry ==
    (IsHarvest /\ IsCkpt(ckpt)) =>
        \A u \in 0..(ckpt.current_index - 1) : Env(u) <= 0 => Registered(ckpt, u)

\* the same statement for phase 3 alone
C10_Phase3Only == phase = 3 => C10_OutcomeRegistry

(* ---- pagination ------------------------------------------------------- *)
PagerReturned == ppc = "returned"

\* C11 (reset invariant): when scrape_all_pages_for_institution (phase 1,
\* phase 3 v2.0) returns after the grid was taken past its first page, the
\* grid shows its first page again (window start index 1), whatever the
\* pager label and the first-page button did.
C11_ResetInvariant ==
    (phase \in {1, 3} /\ PagerReturned /\ next_clicks > 0) => grid_page = 1

\* C13 (pagination stop rule): a next-page click is issued only if the window
\* read after the page was scraped has end < total and the next control was
\* reported enabled; once end >= total or no enabled next control, no click.
C13_StopRule ==
    ppc = "click" => (window[2] < window[3] /\ next_enabled)

\* the same statement without phase 3 v2.0
C13_ExceptPhase3 == phase # 3 => C13_StopRule

\* the window (101, 163, 163) of the second page of 163 items stops the loop
\* even when the next control is reported enabled: scaled to PageRows
C13_LastWindowStops ==
    [][(ppc = "check" /\ window'[3] > 0 /\ window'[2] >= window'[3])
          => ppc' # "click"]_vars

\* C14 (pagination termination): under every behaviour of the remote pager
\* the pagination of one scope returns, and it scrapes at most SafetyLimit
\* pages (50 in phase 1, 200 in phase 3 v2.0, 500 in phase 5).
C14_PaginationTerminates ==
    /\ [](pages_scraped <= SafetyLimit /\ current_page <= SafetyLimit + 1)
    /\ <>PagerReturned

C14_Witness ==
    /\ PagerReturned
    /\ phase = 3
    /\ pages_scraped = SAFETY_LIMIT_PHASE3
    /\ current_page = SAFETY_LIMIT_PHASE3 + 1

(* ---- re-visit --------------------------------------------------------- *)
\* the re-visit of scope i has been recorded
Revisited == pc \in {"revisit", "revisit_done"} /\ i # Unbound

C15_StableRead ==
    (phase = 3 /\ handed.any) => (handed.stable /\ handed.n > 0)

\* the list handed over is never empty
C15_NonEmptyHanded == (phase = 3 /\ handed.any) => handed.n > 0

ScopeRecorded == spc = "returned" /\ pc = "for"

ReturnedEmpty == spc = "returned" /\ ~handed.any

\* the reason main() registered for scope i, "none" without an entry
RecordedReason ==
    IF \E k \in 1..Len(empty_institutions) : empty_institutions[k].index = i
    THEN empty_institutions[Len(empty_institutions)].reason
    ELSE "none"

\* C16 (empty versus anomaly): a scope of phase 3 v2.0 whose label reported
\* total > 0 and whose rows stayed empty after all retries is registered
\* with an outcome other than the "no_data" of a scope whose total is 0.
C16_AnomalyDistinct ==
    (phase = 3 /\ ScopeRecorded /\ ReturnedEmpty /\ label_total > 0)
        => RecordedReason # "no_data"

\* a scope whose total is 0 is registered as "no_data"
C16_GenuineEmpty ==
    (phase = 3 /\ ScopeRecorded /\ ReturnedEmpty /\ label_total = 0)
        => RecordedReason = "no_data"

\* C17 (zero is not trusted immediately): a scope is returned as empty only
\* after EMPTY_MAX_RETRIES further attempts, each of which found no rows.
C17_RetriesExhausted ==
    (spc = "returned" /\ ~handed.any /\ Len(data.recs) = 0 /\ pc = "record")
        => zero_attempts = EMPTY_MAX_RETRIES

\* the same statement for phase 3 v2.0 alone
C17_Phase3Only == phase = 3 => C17_RetriesExhausted

(* ---- select_institution ----------------------------------------------- *)
\* no option equals, contains or is contained in the target
NoOptionMatches ==
    \A k \in 1..Len(options) :
        ~(IsIn(target_name, options[k]) \/ IsIn(options[k], target_name))

ExactOptions == {k \in 1..Len(options) : options[k] = target_name}

\* C18 (select_institution never raises): whatever the page driver does, the
\* call ends by returning True or False, never by an exception, and it
\* returns False when no option matches the target.
C18_NeverRaises ==
    sel = "returned" =>
        /\ result \in {"True", "False"}
        /\ excepted => result = "False"
        /\ NoOptionMatches => result = "False"

C18_Witness ==
    /\ sel = "returned"
    /\ excepted
    /\ result = "False"
    /\ ~NoOptionMatches

\* C19 (selection matching order): when an option whose text equals the
\* target is in the list, the option select_institution clicks is one whose
\* text equals the target, not a placeholder, an empty option or another
\* institution that contains or is contained in the target.
C19_ExactFirst ==
    (sel = "returned" /\ result = "True" /\ ExactOptions # {})
        => selected \in ExactOptions

\* the option clicked always passes the test of the loop of its phase
C19_SelectedMatches ==
    (sel = "returned" /\ result = "True") => Matches(options[selected])

(* ---- the persisted scope list ----------------------------------------- *)
\* C20 (resume against the persisted scope list): in the harvest phases
\* every checkpoint written holds the scope list the process iterates over,
\* next to current_index, and a process that resumed from a checkpoint with
\* a scope list keeps that list instead of enumerating the dropdown again.
C20_PersistedScopeList ==
    [][/\ (IsHarvest /\ pc = "ckpt_dump" /\ ckpt' # ckpt)
            => ckpt'.institution_names = institution_names
       /\ (IsHarvest /\ resume /\ pc = "enum" /\ pc' = "for"
              /\ ckpt.institution_names # <<>>)
            => institution_names' = ckpt.institution_names]_vars

\* the same statement for phase 3 v2.0 alone
C20_Phase3Only ==
    [][phase = 3 =>
        /\ (pc = "ckpt_dump" /\ ckpt' # ckpt)
              => ckpt'.institution_names = institution_names
        /\ (resume /\ pc = "enum" /\ pc' = "for" /\ ckpt.institution_names # <<>>)
              => institution_names' = ckpt.institution_names]_vars

\* a resumed run of phase 1 enumerates the dropdown again
C20_Phase1Reenumerates ==
    [][(phase = 1 /\ resume /\ pc = "enum" /\ pc' = "for")
          => (institution_names' = AllNames /\ ckpt.institution_names = <<>>)]_vars

(* ---------------------------------------------------------------------- *)
(* Failures of the checkpoint write, the rate limit                        *)
(* ---------------------------------------------------------------------- *)
\* C21: once a write of the checkpoint file has failed, the run handles no
\* further scope or item: the failure ends the loop
C21_FatalIO == [][save_failed => visited' \subseteq visited]_vars

\* C21 for the phases whose save_checkpoint lets the exception out (1, 2, 3, 4)
C21_ExceptPhase6 == [][save_failed /\ phase # 6 => visited' \subseteq visited]_vars

\* a save failed after a unit had been handled, and the run is over
C21_Witness == save_failed /\ phase # 6 /\ visited # {} /\ pc = "exited"

\* C22: for a record without a usable Manage_URL the loop body appends exactly
\* one "No valid Manage URL" error, adds no profile, and never reaches the
\* extractor that navigates to the detail page
C22_NoReference ==
    [][/\ pc' = "extract" => Env(i') # "nourl"
       /\ (IsDetail /\ pc = "body" /\ Env(i) = "nourl" /\ visited' # visited)
            => /\ errors' = Append(errors, ErrorEntry("No valid Manage URL"))
               /\ processed_data' = processed_data
               /\ pc' # "extract"]_vars

\* the loop body has just handled a record without a usable Manage_URL
C22_Witness ==
    /\ IsDetail
    /\ i # Unbound
    /\ pc \in {"for", "ckpt_open"}
    /\ Env(i) = "nourl"
    /\ errors # <<>>
    /\ errors[Len(errors)] = ErrorEntry("No valid Manage URL")

\* the items after which the loop owes a pause: the multiples of BATCH_SIZE
\* below the total
OwedPauses == {k \in 1..Total : k % BATCH_SIZE = 0 /\ k < Total}

\* C24: when the loop of a detail phase is over, the pauses slept are those
\* after every item k with k a multiple of BATCH_SIZE and k < total, whatever
\* the outcome of item k
C24_PauseCadence == (IsDetail /\ pc = "final") => pauses = OwedPauses

\* C24 for the items the extractor was called for (Manage_URL present)
C24_ExtractedOnly ==
    (IsDetail /\ pc = "final")
        => /\ pauses \subseteq OwedPauses
           /\ \A k \in OwedPauses : Env(k - 1) # "nourl" => k \in pauses

\* BatchItems records all extracted: paused after the full batches only
C24_Witness ==
    /\ IsDetail
    /\ pc = "final"
    /\ Total = BatchItems
    /\ pauses = OwedPauses
    /\ Cardinality(pauses) = BatchItems \div BATCH_SIZE

(* ---------------------------------------------------------------------- *)
(* Completion of a detail phase                                            *)
(* ---------------------------------------------------------------------- *)
\* every record of the input was extracted, none ended in error
AllProcessed ==
    /\ Len(processed_data) = Total
    /\ \A u \in 0..(Total - 1) : Env(u) = "ok"

\* C25: a detail phase removes its checkpoint file only when the number of
\* items processed equals the length of the input and no item of the run,
\* before or after a resume, ended in error
C25_CleanupOnlyComplete ==
    [][(IsDetail /\ ckpt.st # "absent" /\ ckpt'.st = "absent") => AllProcessed]_vars

\* C25 for phase 6, whose cleanup also compares len(processed_data) with total
C25_Phase6Only ==
    [][(phase = 6 /\ ckpt.st # "absent" /\ ckpt'.st = "absent") => AllProcessed]_vars

(* ---------------------------------------------------------------------- *)
(* The records of the output and of the checkpoint                         *)
(* ---------------------------------------------------------------------- *)
\* no record occurs twice in the list
NoDuplicates(list) ==
    \A a, b \in 1..Len(list) : list[a] = list[b] => a = b

\* C26: the output file of a phase never holds two records of the same
\* Manage_URL, in a fresh run and in a resumed one
C26_OutputDeduplicated ==
    (pc = "exited" /\ outcome = "complete") => NoDuplicates(output.data)

\* C26 for the phases other than phase 3
C26_ExceptPhase3 ==
    (phase # 3 /\ pc = "exited" /\ outcome = "complete")
        => NoDuplicates(output.data)

\* C29: across the successive checkpoints one run writes, current_index
\* never decreases
C29_CursorMonotone ==
    [][(IsCkpt(ckpt) /\ IsCkpt(ckpt'))
        => ckpt'.current_index >= ckpt.current_index]_vars

\* the records of one scope stand next to each other in the list
Contiguous(list) ==
    \A a, b, c \in 1..Len(list) :
        (a < b /\ b < c /\ list[a][1] = list[c][1]) => list[b][1] = list[a][1]

\* C30: in every checkpoint of a harvest phase the records of one scope form
\* a single contiguous block, whatever harvests, interrupts and resumes came
\* before
C30_ScopeBlocks == (IsHarvest /\ IsCkpt(ckpt)) => Contiguous(ckpt.data)

\* C30 for phase 1
C30_Phase1Only == (phase = 1 /\ IsCkpt(ckpt)) => Contiguous(ckpt.data)

\* C30 for the re-visit alone: it keeps the blocks of a list that had them
C30_RevisitKeepsBlocks ==
    [][Contiguous(master_list) => Contiguous(master_list')]_vars

(* ---------------------------------------------------------------------- *)
(* The sections of a profile                                               *)
(* ---------------------------------------------------------------------- *)
\* C23: a section whose extractor met an error has an empty value in the
\* profile
C23_FaultedEmpty == \A n \in faulted : profile.sections[n] = 0

\* C23, the isolation: once the page has loaded the profile is never None,
\* keeps its Meta block and the sections already stored, and is returned
\* with a key for every section, complete for every section without error
C23_SectionIsolation ==
    [][xpc = "sections"
        => /\ ~profile'.none
           /\ profile'.meta
           /\ SubSeq(profile'.sections, 1, Len(profile.sections)) = profile.sections
           /\ xpc' = "returned"
                => /\ Len(profile'.sections) = NumSections
                   /\ \A n \in (1..NumSections) \ faulted' :
                          profile'.sections[n] = MaxFields]_vars

\* a profile was returned although a section extractor met an error
C23_Witness ==
    /\ xpc = "returned"
    /\ faulted # {}
    /\ ~profile.none
    /\ Len(profile.sections) = NumSections

(* ---------------------------------------------------------------------- *)
(* The controller                                                          *)
(* ---------------------------------------------------------------------- *)
\* C27: run_phase of a details phase whose metadata output is missing or
\* holds no record returns False at the dependency check, having logged in,
\* navigated and loaded nothing; a metadata phase always passes the check
C27_DependencyGate ==
    [][(rpc = "gate" /\ rpc' # "gate")
        => /\ (phase_num \in DetailPhases /\ dep_output[phase_num - 1] # "records")
                => /\ rpc' = ReturnTo
                   /\ returned' = "False"
                   /\ touched' = {}
                   /\ UNCHANGED <<driver, is_logged_in, authed, prompts>>
           /\ phase_num \in MetadataPhases => rpc' = "resume"]_vars

\* a details phase was refused because its metadata output holds no record
C27_Witness ==
    /\ rpc = "menu"
    /\ phase_num \in DetailPhases
    /\ dep_output[phase_num - 1] = "empty"
    /\ returned = "False"
    /\ touched = {}

\* C28: a phase starts its extraction only with a browser in which the
\* manual login was performed
C28_ExtractionLoggedIn ==
    [][(rpc = "navigate" /\ rpc' = "extract" /\ driver' = "alive") => authed']_vars

\* C28: the manual login is requested at most once in one browser
C28_SinglePrompt == prompts <= 1

(* ---------------------------------------------------------------------- *)
(* The registry of empty scopes after a re-visit                           *)
(* ---------------------------------------------------------------------- *)
\* C36: the empty_institutions list _revisit_targets writes to the checkpoint
\* still holds the re-visited scope when its re-visit gave no data again
C36_RegistryKeepsEmpty ==
    (Revisited /\ IsCkpt(ckpt) /\ (fetched.none \/ Len(fetched.recs) = 0))
        => \E k \in 1..Len(ckpt.empty_institutions) :
               ckpt.empty_institutions[k].name = Name(i)

\* C36 for the other scopes of the registry: the save drops none of them
C36_OthersKept ==
    (Revisited /\ IsCkpt(ckpt))
        => \A k \in 1..Len(empty_institutions) :
               empty_institutions[k].name # Name(i)
                   => \E j \in 1..Len(ckpt.empty_institutions) :
                          ckpt.empty_institutions[j] = empty_institutions[k]

(* ---------------------------------------------------------------------- *)
(* The browser session                                                     *)
(* ---------------------------------------------------------------------- *)
\* C37: a session that is reported as logged in has a driver
C37_LoggedInHasDriver == is_logged_in => driver # "none"

\* C37 for close(): after it the session is not logged in
C37_CloseLogsOut ==
    [][(rpc = "menu" /\ rpc' = "menu" /\ driver = "alive" /\ driver' = "none")
        => ~is_logged_in']_vars

(* ---------------------------------------------------------------------- *)
(* The reset of the grid before the pagination returns                     *)
(* ---------------------------------------------------------------------- *)
\* C34: when scrape_all_pages_for_institution of phase 3 v2.0 returns after a
\* next-page click succeeded, it returns through reset_to_first_page
C34_ResetAfterAdvance ==
    [][(phase = 3 /\ ppc # "returned" /\ ppc' = "returned" /\ next_clicks' > 0)
        => ppc = "reset"]_vars

\* C34 for the returns that follow a page whose rows came
C34_AfterScrapedPage ==
    [][(phase = 3 /\ ppc # "returned" /\ ppc' = "returned" /\ current_page' > 1)
        => ppc = "reset"]_vars

(* ---------------------------------------------------------------------- *)
(* The accounting of the detail loop                                       *)
(* ---------------------------------------------------------------------- *)
\* how often item u stands in processed_data and in errors
TimesRecorded(u) ==
    Cardinality({k \in 1..Len(processed_data) : processed_data[k] = u})
        + Cardinality({k \in 1..Len(errors) : errors[k].index = u})

C39_ErrorLogBelowCursor ==
    (IsDetail /\ pc = "exited" /\ IsCkpt(ckpt) /\ errlog.st = "complete")
        => \A k \in 1..Len(errlog.errors) :
               errlog.errors[k].index < ckpt.current_index

\* C39: the error registry of a detail phase holds at most one entry per
\* item index, whatever stops and resumes came before
C39_OneEntryPerIndex ==
    IsDetail
        => \A k1, k2 \in 1..Len(errors) :
               errors[k1].index = errors[k2].index => k1 = k2

(* ---------------------------------------------------------------------- *)
(* The pipelines                                                          *)
(* ---------------------------------------------------------------------- *)
\* a category pipeline starts its second phase only after run_phase of the
\* first returned True
CategoryRule ==
    (pipeline = "category" /\ rpc = "loop" /\ rpc' = "gate" /\ Len(todo) = 1)
        => returned = "True"

\* the full pipeline attempts the phases in increasing order, none twice
FullOrder ==
    (pipeline = "full" /\ rpc = "loop" /\ rpc' = "gate")
        => phase_num' = Len(completed) + Len(failed) + 1

\* after a failed phase the full pipeline goes on only on the answer 'y'
FullContinue ==
    (pipeline = "full" /\ rpc = "loop" /\ rpc' = "gate" /\ failed # <<>>
        /\ failed[Len(failed)] = phase_num)
        => answer = "y"

\* between two phases of the full pipeline every attempted phase stands in
\* exactly one of completed and failed
FullAccounting ==
    (pipeline = "full" /\ rpc = "loop")
        => LET done == Len(completed) + Len(failed)
           IN  /\ \A n \in 1..done :
                      Cardinality({k \in 1..Len(completed) : completed[k] = n})
                        + Cardinality({k \in 1..Len(failed) : failed[k] = n}) = 1
               /\ \A k \in 1..Len(completed) : completed[k] \in 1..done
               /\ \A k \in 1..Len(failed) : failed[k] \in 1..done
               /\ (phase_num \in 1..done /\ returned = "True")
                      => \E k \in 1..Len(completed) : completed[k] = phase_num
               /\ (phase_num \in 1..done /\ returned = "False")
                      => \E k \in 1..Len(failed) : failed[k] = phase_num

\* C32: run_category_pipeline does not start its second phase when run_phase
\* of the first returned False; run_full_pipeline attempts phases 1..6 in
\* increasing order, keeps every attempted phase in exactly one of completed
\* and failed, and goes on after a failed phase only on the answer 'y'
C32_PipelineControl ==
    /\ [][CategoryRule /\ FullOrder /\ FullContinue]_vars
    /\ []FullAccounting

\* the full pipeline went on after a failed phase and reached its last phase
\* with phases in both lists
C32_Witness ==
    /\ pipeline = "full"
    /\ rpc = "loop"
    /\ todo = <<>>
    /\ Len(completed) + Len(failed) = 6
    /\ completed # <<>>
    /\ failed # <<>>
    /\ answer = "y"

\* a category pipeline was stopped after its first phase
C32_CategoryStopped ==
    /\ pipeline = "category"
    /\ rpc = "loop"
    /\ todo = <<>>
    /\ phase_num \in MetadataPhases
    /\ returned = "False"

\* C33: run_phase returns True only if the phase module ran its extraction
\* to completion
C33_TruthfulSuccess ==
    returned = "True" => module_end = "complete"

\* C33: a run of the module that an exception left is reported as False
C33_RaisedIsFalse ==
    module_end = "raised" => returned = "False"

(* ---------------------------------------------------------------------- *)
(* The review list of post_scrape_menu                                    *)
(* ---------------------------------------------------------------------- *)
\* the menu has updated its list after the re-visit
MenuUpdated == pc \in {"menu_again", "menu_done"}

\* the entry was in the review list and was not chosen, or is still empty
OwedReview(e) == ~Listed(e, chosen) \/ Listed(e, still_empty)

\* C35: after option S every institution that was in the empty list and was
\* not chosen, or is still empty after its re-visit, remains in the list
C35_ReviewListKept ==
    (MenuUpdated /\ menu_choice = "S")
        => \A k \in 1..Len(old_empty) :
               OwedReview(old_empty[k]) => Listed(old_empty[k], empty_institutions)

\* C35: the menu reports that no empty institutions remain only when none
\* of the listed institutions is still without data
C35_ReportTruthful ==
    pc = "menu_done"
        => \A k \in 1..Len(old_empty) : ~OwedReview(old_empty[k])

\* C35 for option A, which re-visits every entry: the list is kept right
C35_OptionA ==
    (MenuUpdated /\ menu_choice = "A")
        => \A k \in 1..Len(old_empty) :
               OwedReview(old_empty[k]) <=> Listed(old_empty[k], empty_institutions)

(* ---------------------------------------------------------------------- *)
(* The deduplication of phase 5                                           *)
(* ---------------------------------------------------------------------- *)
\* master_list holds a record of the organization
Recorded(o) == \E k \in 1..Len(master_list) : master_list[k].Organization_Name = o

\* C38: every organization of which a row was scraped has a record in the
\* master list, rows without a manage link included
C38_NoRecordLost ==
    phase = 5 => \A r \in scraped : Recorded(r.Organization_Name)

\* C38 for the rows whose manage link was found: none of them is lost
C38_LinkedKept ==
    phase = 5
        => \A r \in scraped : r.Manage_URL # NotFound => Recorded(r.Organization_Name)

====
